---- MODULE Spec2Model ----
(***************************************************************************)
(* A model of ofxParameterTwister: sixteen encoders of a Midi Fighter      *)
(* Twister bound to ofParameters.  The receive callback enqueues decoded   *)
(* control-change messages, update() drains the queue and routes each      *)
(* message to an encoder's handler, and a parameter's change listener      *)
(* pushes the new value back to the hardware.                              *)
(*                                                                         *)
(* Numbers that the code holds in a float are held here as exact           *)
(* fractions [n, d]; the rounding of a 32-bit float is not modelled.       *)
(***************************************************************************)
EXTENDS Integers, Sequences, FiniteSets, TLC

VARIABLES
    mMidiOut,            \* TRUE: the output handle is not nullptr
    mEncoders,           \* the 16 encoders: flags, listeners, handlers
    mChannelMidiIn,      \* the thread channel filled by _midi_callback
    mHighResVelLowByte,  \* low byte of the last `B0 58 vv` message
    params,              \* the value of each ofParameter of the application
    pc,                  \* "idle", "update" (inside update()), "crashed"
    m,                   \* update()'s local MidiCCMessage
    sent,                \* frames handed to mMidiOut->sendMessage by the last call
    logged,              \* number of ofLogError lines of the last call
    handled,             \* handler invocations of the last update() iteration
    oob,                 \* the last update() iteration indexed mEncoders out of range
    last,                \* the last operation and its arguments
    arg                  \* the argument held for a call made on one encoder alone

vars == << mMidiOut, mEncoders, mChannelMidiIn, mHighResVelLowByte, params,
           pc, m, sent, logged, handled, oob, last, arg >>

-----------------------------------------------------------------------------
(* Program constants *)

NumEncoders == 16

TW_MAX_ENCODER_VALUE == 16383

HighResController == 88

Slots == 0 .. (NumEncoders - 1)

-----------------------------------------------------------------------------
(* Bounds of the model and the inputs it draws *)

MaxQueue == 2

\* Slot indices handed to the per-slot calls: the first slot, an inner slot,
\* the last slot and the first index past the array.
SlotArgs == {0, 5, 15, 16}

\* The application's parameters: a float, an int and a bool.
Params == {"pF", "pI", "pB"}

\* A parameter of another type (an ofParameter<string>), met only in a group.
OtherParam == "pS"

\* A group of seventeen parameters, one more than there are encoders: floats,
\* ints and bools in turn.
LongGroup ==
    << "a01", "a02", "a03", "a04", "a05", "a06", "a07", "a08", "a09",
       "a10", "a11", "a12", "a13", "a14", "a15", "a16", "a17" >>

GroupFloats == { LongGroup[i] : i \in { k \in 1 .. Len(LongGroup) : k % 3 = 1 } }

GroupInts == { LongGroup[i] : i \in { k \in 1 .. Len(LongGroup) : k % 3 = 2 } }

GroupBools == { LongGroup[i] : i \in { k \in 1 .. Len(LongGroup) : k % 3 = 0 } }

\* Every parameter the application owns.
AllParams == Params \cup GroupFloats \cup GroupInts \cup GroupBools

Kind(p) ==
    CASE p = "pF" \/ p \in GroupFloats -> "Float"
      [] p = "pI" \/ p \in GroupInts -> "Int"
      [] p = "pB" \/ p \in GroupBools -> "Bool"
      [] OTHER -> "Other"

pMinOf(p) == 0

\* Raw frames delivered to the receive callback: the high-resolution prefix;
\* a rotary message for slot 5 and one for a controller past the last slot;
\* the same two on the switch channel; a message on an outbound-only channel;
\* a note-on; and a frame that is not three bytes long.
InboundFrames ==
    { <<176, 88, 16>>,
      <<176, 5, 64>>, <<176, 16, 64>>,
      <<177, 5, 64>>, <<177, 16, 64>>,
      <<178, 5, 64>>, <<144, 5, 64>>, <<176, 5>> }

\* Raw frames of every length from 0 to 4 bytes; the three-byte ones cover a
\* note-on, the control changes of channels 0, 1 and 15, the first and the
\* last controller and the prefix controller, and both ends of the value.
RawFrames ==
    { <<>>, <<176>>, <<176, 5>>, <<176, 5, 64, 0>> }
    \cup { <<b0, b1, b2>> : b0 \in {144, 176, 177, 191},
                            b1 \in {0, 88, 127}, b2 \in {0, 127} }

\* 14-bit values the hardware reports for a rotary: both ends, the values
\* around a change of the high byte, the middle, and a value with both bytes
\* non-zero.
EchoValues == {0, 1, 127, 128, 8191, 8192, 8208, 16382, 16383}

\* The value byte of a control change: seven bits.
ValueBytes == 0 .. 127

\* Values the application sets a parameter to (ofParameter does not clamp).
ExternalValues(p) ==
    CASE p = "pF" -> { [n |-> 1, d |-> 2], [n |-> 3, d |-> 2] }
      [] p = "pI" -> { [n |-> 3, d |-> 1], [n |-> 12, d |-> 1] }
      [] p = "pB" -> BOOLEAN

InitialValue(p) ==
    CASE Kind(p) = "Float" -> [n |-> 1, d |-> 2]
      [] Kind(p) = "Int" -> [n |-> 3, d |-> 1]
      [] Kind(p) = "Bool" -> FALSE

\* Parameter groups handed to setParams.
Groups == { <<>>, <<"pS">>, <<"pB", "pF">> }

\* Groups of every length class: empty, shorter than the array with and
\* without a parameter of another type, and longer than the array.
GroupArgs == { <<>>, <<"pB", "pF">>, <<"pS", "pI">>, LongGroup }

\* Normalised hue and brightness arguments.
LevelArgs == { [n |-> 0, d |-> 1], [n |-> 1, d |-> 2] }

\* Animation rates: valid ones and the first invalid one.
RateArgs == {0, 7, 8}

\* Every valid animation rate, the first invalid one and the largest uint8_t.
AllRates == (0 .. 8) \cup {255}

pMaxOf(p) == IF Kind(p) = "Float" THEN 1 ELSE 10

-----------------------------------------------------------------------------
(* Arithmetic: fractions, ofMap, and the conversions of its float result *)

RECURSIVE GCD(_, _)
GCD(a, b) == IF b = 0 THEN a ELSE GCD(b, a % b)

Abs(x) == IF x < 0 THEN -x ELSE x

\* The fraction n/d (d > 0) in lowest terms.
Frac(n, d) ==
    LET g == GCD(Abs(n), d)
    IN  [n |-> n \div g, d |-> d \div g]

FromInt(i) == [n |-> i, d |-> 1]

FracLess(a, b) == a.n * b.d < b.n * a.d

\* ofMap(value, inputMin, inputMax, outputMin, outputMax, clamp = true), with
\* integer ranges: outputMin when the input range is empty, else the linear
\* map, clamped to the output range.
ofMap(value, inputMin, inputMax, outputMin, outputMax) ==
    IF inputMin = inputMax
    THEN FromInt(outputMin)
    ELSE LET sgn  == IF inputMax > inputMin THEN 1 ELSE -1
             den  == value.d * (inputMax - inputMin) * sgn
             num  == ( (value.n - inputMin * value.d) * (outputMax - outputMin)
                       + outputMin * value.d * (inputMax - inputMin) ) * sgn
             out  == Frac(num, den)
             lo   == IF outputMax < outputMin THEN outputMax ELSE outputMin
             hi   == IF outputMax < outputMin THEN outputMin ELSE outputMax
         IN  IF FracLess(FromInt(hi), out) THEN FromInt(hi)
             ELSE IF FracLess(out, FromInt(lo)) THEN FromInt(lo)
             ELSE out

\* float -> int: truncation toward zero.
Trunc(f) == IF f.n >= 0 THEN f.n \div f.d ELSE -((-f.n) \div f.d)

\* float -> uint16_t (the argument of setRotaryValue / setSwitchValue).
ToUint16(f) == Trunc(f) % 65536

\* x & 0x7F and (x >> 7) & 0x7F on non-negative integers.
Low7(x) == x % 128

\* The high byte taken eight bits up instead of seven.
High7Shift8(x) == (x \div 256) % 128

High7(x) == (x \div 128) % 128

\* The value a parameter of kind k holds after param_.set(f).
Stored(k, f) == IF k = "Int" THEN FromInt(Trunc(f)) ELSE f

-----------------------------------------------------------------------------
(* MidiCCMessage *)

MidiCCMessage(cc, ctl, val) ==
    [command_channel |-> cc, controller |-> ctl, value |-> val]

DefaultMessage == MidiCCMessage(176, 0, 0)

\* getCommand taking every message for a control change.
getCommandAny(msg) == 11

getCommand(msg) == msg.command_channel \div 16

getChannel(msg) == msg.command_channel % 16

-----------------------------------------------------------------------------
(* Encoder *)

NoParam == "none"

NewEncoder ==
    [ rotaryEnabled        |-> FALSE,
      switchEnabled        |-> FALSE,
      mELSwitchParamChange |-> NoParam,
      mELRotaryParamChange |-> NoParam,
      updateSwitchParam    |-> NoParam,
      updateRotaryParam    |-> NoParam ]

\* What a call on an encoder yields: the encoder after it, the frames it sent
\* and the error lines it logged.
Result(e, out, err) == [enc |-> e, out |-> out, err |-> err]

Frame(b0, b1, b2, by) == [b0 |-> b0, b1 |-> b1, b2 |-> b2, by |-> by]

\* setEncoderPhenotype sending its frame whether or not a transport is there.
setEncoderPhenotypeUnchecked(pos, phenotype) ==
    << Frame(180, pos, phenotype, "phenotype") >>

\* Encoder::setEncoderPhenotype
setEncoderPhenotype(pos, phenotype) ==
    IF ~mMidiOut THEN <<>> ELSE << Frame(180, pos, phenotype, "phenotype") >>

\* sendToRotary with the value frame sent before the prefix frame.
sendToRotaryValueFirst(pos, msb, lsb) ==
    IF ~mMidiOut THEN <<>>
    ELSE << Frame(176, pos, msb, "rotary.value"),
            Frame(176, HighResController, lsb, "rotary.prefix") >>

\* Encoder::sendToRotary
sendToRotary(pos, msb, lsb) ==
    IF ~mMidiOut THEN <<>>
    ELSE << Frame(176, HighResController, lsb, "rotary.prefix"),
            Frame(176, pos, msb, "rotary.value") >>

\* Encoder::sendToSwitch
sendToSwitch(pos, v) ==
    IF ~mMidiOut THEN <<>> ELSE << Frame(177, pos, v, "switch") >>

\* setRotaryState telling the hardware it is disabled whatever the switch flag.
setRotaryStateIgnoringSwitch(e, pos, enabled, force) ==
    IF e.rotaryEnabled = enabled /\ force = FALSE
    THEN Result(e, <<>>, 0)
    ELSE Result([e EXCEPT !.rotaryEnabled = enabled],
                IF enabled THEN setEncoderPhenotype(pos, 0)
                ELSE setEncoderPhenotype(pos, 2),
                0)

\* Encoder::setRotaryState
setRotaryState(e, pos, enabled, force) ==
    IF e.rotaryEnabled = enabled /\ force = FALSE
    THEN Result(e, <<>>, 0)
    ELSE Result([e EXCEPT !.rotaryEnabled = enabled],
                IF enabled THEN setEncoderPhenotype(pos, 0)
                ELSE IF ~e.switchEnabled THEN setEncoderPhenotype(pos, 2)
                ELSE <<>>,
                0)

\* Encoder::setSwitchState
setSwitchState(e, pos, enabled, force) ==
    IF e.switchEnabled = enabled /\ force = FALSE
    THEN Result(e, <<>>, 0)
    ELSE Result([e EXCEPT !.switchEnabled = enabled],
                IF enabled THEN setEncoderPhenotype(pos, 1)
                ELSE IF ~e.rotaryEnabled THEN setEncoderPhenotype(pos, 2)
                ELSE <<>>,
                0)

\* setRotaryValue without the check of the rotary flag.
setRotaryValueUnchecked(e, pos, v) ==
    Result(e, sendToRotary(pos, High7(v), Low7(v)), 0)

\* Encoder::setRotaryValue
setRotaryValue(e, pos, v) ==
    IF ~e.rotaryEnabled
    THEN Result(e, <<>>, 1)
    ELSE Result(e, sendToRotary(pos, High7(v), Low7(v)), 0)

\* Encoder::setSwitchValue
setSwitchValue(e, pos, v) ==
    IF ~e.switchEnabled
    THEN Result(e, <<>>, 1)
    ELSE Result(e, sendToSwitch(pos, High7(v)), 0)

\* One call after another on the same encoder.
Then(r1, r2) == Result(r2.enc, r1.out \o r2.out, r1.err + r2.err)

-----------------------------------------------------------------------------
(* ofParameter: the listeners of a parameter, run by param_.set(v) *)

\* The rotary listener pushing the new value without rescaling it.
RotaryParamChangeUnscaled(e, pos, p, v) ==
    setRotaryValue(e, pos, ToUint16(v))

\* The lambda given to param_.newListener by setParam (float and int): the
\* new value rescaled from [pMin, pMax] and pushed to the rotary.
RotaryParamChange(e, pos, p, v) ==
    setRotaryValue(e, pos,
        ToUint16(ofMap(v, pMinOf(p), pMaxOf(p), 0, TW_MAX_ENCODER_VALUE)))

\* The lambda given to param_.newListener by setParam (bool).
SwitchParamChange(e, pos, v) ==
    setSwitchValue(e, pos, IF v = TRUE THEN TW_MAX_ENCODER_VALUE ELSE 0)

\* The listeners of encoder pos that are subscribed to parameter p.
ListenersOf(e, pos, p, v) ==
    LET r == IF e.mELRotaryParamChange = p
             THEN RotaryParamChange(e, pos, p, v) ELSE Result(e, <<>>, 0)
        s == IF e.mELSwitchParamChange = p
             THEN SwitchParamChange(e, pos, v) ELSE Result(e, <<>>, 0)
    IN  Then(r, s)

\* The encoders with a listener subscribed to p.
Subscribed(encs, p) ==
    { pos \in Slots : \/ encs[pos].mELRotaryParamChange = p
                      \/ encs[pos].mELSwitchParamChange = p }

Min(S) == CHOOSE x \in S : \A y \in S : x <= y

\* The listeners of the encoders in S, run with the new value v; the encoders
\* are visited in slot order.
RECURSIVE NotifyIn(_, _, _, _)
NotifyIn(encs, p, v, S) ==
    IF S = {} THEN [out |-> <<>>, err |-> 0]
    ELSE LET pos  == Min(S)
             r    == ListenersOf(encs[pos], pos, p, v)
             rest == NotifyIn(encs, p, v, S \ {pos})
         IN  [out |-> r.out \o rest.out, err |-> r.err + rest.err]

\* Every listener subscribed to p, run with the new value v.
Notify(encs, p, v) == NotifyIn(encs, p, v, Subscribed(encs, p))

-----------------------------------------------------------------------------
(* ofxParameterTwisterImpl: binding parameters to encoders *)

\* setParam(Encoder&, ofParameter<float>&)
setParamFloat(e, pos, p) ==
    LET r1 == setRotaryState(e, pos, TRUE, FALSE)
        r2 == setRotaryValue(r1.enc, pos,
                  ToUint16(ofMap(params[p], pMinOf(p), pMaxOf(p),
                                 0, TW_MAX_ENCODER_VALUE)))
        r  == Then(r1, r2)
    IN  Result([r.enc EXCEPT !.updateRotaryParam = p,
                             !.mELRotaryParamChange = p], r.out, r.err)

\* setParam(Encoder&, ofParameter<int>&)
setParamInt(e, pos, p) ==
    LET r1 == setRotaryState(e, pos, TRUE, FALSE)
        r2 == setRotaryValue(r1.enc, pos,
                  ToUint16(ofMap(params[p], pMinOf(p), pMaxOf(p),
                                 0, TW_MAX_ENCODER_VALUE)))
        r  == Then(r1, r2)
    IN  Result([r.enc EXCEPT !.updateRotaryParam = p,
                             !.mELRotaryParamChange = p], r.out, r.err)

\* setParam(Encoder&, ofParameter<bool>&)
setParamBool(e, pos, p) ==
    LET r1 == setSwitchState(e, pos, TRUE, FALSE)
        r2 == setSwitchValue(r1.enc, pos,
                  IF params[p] = TRUE THEN TW_MAX_ENCODER_VALUE ELSE 0)
        r  == Then(r1, r2)
    IN  Result([r.enc EXCEPT !.updateSwitchParam = p,
                             !.mELSwitchParamChange = p], r.out, r.err)

\* clearParam leaving the switch listener subscribed.
clearParamEncoderKeepSwitch(e, pos, force) ==
    LET r1 == setRotaryState(e, pos, FALSE, force)
        e1 == [r1.enc EXCEPT !.mELRotaryParamChange = NoParam]
        r2 == setSwitchState(e1, pos, FALSE, force)
    IN  Result(r2.enc, r1.out \o r2.out, r1.err + r2.err)

\* clearParam(Encoder&, bool)
clearParamEncoder(e, pos, force) ==
    LET r1 == setRotaryState(e, pos, FALSE, force)
        e1 == [r1.enc EXCEPT !.mELRotaryParamChange = NoParam]
        r2 == setSwitchState(e1, pos, FALSE, force)
        e2 == [r2.enc EXCEPT !.mELSwitchParamChange = NoParam]
    IN  Result(e2, r1.out \o r2.out, r1.err + r2.err)

\* The overload of setParam(Encoder&, ...) that the parameter's type selects.
setParamEncoder(e, pos, p) ==
    CASE Kind(p) = "Float" -> setParamFloat(e, pos, p)
      [] Kind(p) = "Int"   -> setParamInt(e, pos, p)
      [] Kind(p) = "Bool"  -> setParamBool(e, pos, p)

\* setParams starting at the second parameter of the group.
setParamsAtShifted(e, group, pos) ==
    IF pos + 2 <= Len(group)
    THEN IF Kind(group[pos + 2]) \in {"Float", "Int", "Bool"}
         THEN setParamEncoder(e, pos, group[pos + 2])
         ELSE clearParamEncoder(e, pos, FALSE)
    ELSE LET r1 == setRotaryState(e, pos, FALSE, TRUE)
         IN  Then(r1, setSwitchState(r1.enc, pos, FALSE, TRUE))

\* setParams clearing, with force, the encoder of a parameter of another type.
setParamsAtForcedClear(e, group, pos) ==
    IF pos + 1 <= Len(group)
    THEN IF Kind(group[pos + 1]) \in {"Float", "Int", "Bool"}
         THEN setParamEncoder(e, pos, group[pos + 1])
         ELSE clearParamEncoder(e, pos, TRUE)
    ELSE LET r1 == setRotaryState(e, pos, FALSE, TRUE)
         IN  Then(r1, setSwitchState(r1.enc, pos, FALSE, TRUE))

\* What setParams does with the encoder at pos: the parameter at its place in
\* the group is bound, a parameter of another type clears the encoder, and
\* past the end of the group both states are disabled, forced.
setParamsAt(e, group, pos) ==
    IF pos + 1 <= Len(group)
    THEN IF Kind(group[pos + 1]) \in {"Float", "Int", "Bool"}
         THEN setParamEncoder(e, pos, group[pos + 1])
         ELSE clearParamEncoder(e, pos, FALSE)
    ELSE LET r1 == setRotaryState(e, pos, FALSE, TRUE)
         IN  Then(r1, setSwitchState(r1.enc, pos, FALSE, TRUE))

\* The frames and the error lines of the calls r[pos], ..., r[15], in order.
RECURSIVE OutFrom(_, _)
OutFrom(r, pos) ==
    IF pos >= NumEncoders THEN <<>> ELSE r[pos].out \o OutFrom(r, pos + 1)

RECURSIVE ErrFrom(_, _)
ErrFrom(r, pos) ==
    IF pos >= NumEncoders THEN 0 ELSE r[pos].err + ErrFrom(r, pos + 1)

\* A loop over mEncoders whose iteration at pos yields r[pos]: an iteration
\* reads and writes its own encoder only.
ForEachEncoder(r) ==
    [encs |-> [pos \in Slots |-> r[pos].enc],
     out  |-> OutFrom(r, 0),
     err  |-> ErrFrom(r, 0)]

\* setParams: the loop over mEncoders.
setParamsLoop(encs, group) ==
    ForEachEncoder([pos \in Slots |-> setParamsAt(encs[pos], group, pos)])

\* clear(): every encoder cleared, forced.
clearLoop(encs) ==
    ForEachEncoder([pos \in Slots |-> clearParamEncoder(encs[pos], pos, TRUE)])

-----------------------------------------------------------------------------
(* LED state *)

\* std::round of a non-negative fraction: halves away from zero.
Round(f) == (2 * f.n + f.d) \div (2 * f.d)

\* Encoder::setHueRGB
EncoderSetHueRGB(pos, h) ==
    IF ~mMidiOut THEN <<>>
    ELSE << Frame(177, pos, Round(ofMap(h, 0, 1, 1, 126)) % 256, "hue") >>

\* Encoder::setBrightnessRotary
EncoderSetBrightnessRotary(pos, b) ==
    IF ~mMidiOut THEN <<>>
    ELSE << Frame(178, pos, Round(ofMap(b, 0, 1, 65, 95)) % 256, "brightness") >>

\* Encoder::setBrightnessRGB
EncoderSetBrightnessRGB(pos, b) ==
    IF ~mMidiOut THEN <<>>
    ELSE << Frame(178, pos, Round(ofMap(b, 0, 1, 17, 47)) % 256, "brightness") >>

\* Encoder::setAnimation
EncoderSetAnimation(pos, v) ==
    IF ~mMidiOut THEN <<>> ELSE << Frame(178, pos, v, "animation") >>

Animations == {"NONE", "STROBE", "PULSE", "RAINBOW"}

\* setAnimationRGB(Encoder&, Animation, uint8_t): the mode byte.
AnimationModeRGB(anim, rate) ==
    CASE anim = "NONE"   -> 0
      [] anim = "STROBE" -> (1 + rate) % 256
      [] anim = "PULSE"  -> (9 + rate) % 256
      [] OTHER           -> 127

\* setAnimationRotary(Encoder&, Animation, uint8_t): the mode byte.
AnimationModeRotary(anim, rate) ==
    CASE anim = "NONE"   -> 48
      [] anim = "STROBE" -> (49 + rate) % 256
      [] OTHER           -> (57 + rate) % 256

-----------------------------------------------------------------------------
(* The state after setup() *)

\* a: the argument held for the calls made on one encoder alone.
InitState(a) ==
    /\ mMidiOut \in BOOLEAN
    /\ mEncoders = [pos \in Slots |-> NewEncoder]
    /\ mChannelMidiIn = <<>>
    /\ mHighResVelLowByte = 0
    /\ params = [p \in AllParams |-> InitialValue(p)]
    /\ pc = "idle"
    /\ m = DefaultMessage
    /\ sent = <<>>
    /\ logged = 0
    /\ handled = <<>>
    /\ oob = FALSE
    /\ last = [op |-> "setup", idx |-> 0, arg |-> NoParam]
    /\ arg = a

Init == InitState(0)

Call(op, idx, a) == [op |-> op, idx |-> idx, arg |-> a]

\* A call of the tick context that does not drain the queue.
TickCall(encs, out, err, call) ==
    /\ pc = "idle"
    /\ mEncoders' = encs
    /\ sent' = out
    /\ logged' = err
    /\ handled' = <<>>
    /\ oob' = FALSE
    /\ last' = call
    /\ UNCHANGED << mMidiOut, mChannelMidiIn, mHighResVelLowByte, pc, m, arg >>

-----------------------------------------------------------------------------
(* The public calls *)

\* setParam(size_t, ofParameter<float>&), ...<int>&, ...<bool>&
SetParam(idx, p) ==
    /\ IF idx < NumEncoders
       THEN LET r == setParamEncoder(mEncoders[idx], idx, p)
            IN  TickCall([mEncoders EXCEPT ![idx] = r.enc], r.out, r.err,
                         Call("setParam", idx, p))
       ELSE TickCall(mEncoders, <<>>, 0, Call("setParam", idx, p))
    /\ UNCHANGED params

\* clearParam(size_t, bool)
ClearParam(idx, force) ==
    /\ IF idx < NumEncoders
       THEN LET r == clearParamEncoder(mEncoders[idx], idx, force)
            IN  TickCall([mEncoders EXCEPT ![idx] = r.enc], r.out, r.err,
                         Call("clearParam", idx, force))
       ELSE TickCall(mEncoders, <<>>, 0, Call("clearParam", idx, force))
    /\ UNCHANGED params

\* setParams(const ofParameterGroup&)
SetParams(group) ==
    /\ LET r == setParamsLoop(mEncoders, group)
       IN  TickCall(r.encs, r.out, r.err, Call("setParams", 0, group))
    /\ UNCHANGED params

\* clear()
Clear ==
    /\ LET r == clearLoop(mEncoders)
       IN  TickCall(r.encs, r.out, r.err, Call("clear", 0, NoParam))
    /\ UNCHANGED params

\* setHueRGB without the check of the index.
SetHueRGBUnchecked(idx, h) ==
    /\ TickCall(mEncoders, EncoderSetHueRGB(idx, h), 0, Call("setHueRGB", idx, h))
    /\ UNCHANGED params

\* setHueRGB(size_t, float)
SetHueRGB(idx, h) ==
    /\ TickCall(mEncoders,
                IF idx < NumEncoders THEN EncoderSetHueRGB(idx, h) ELSE <<>>,
                0, Call("setHueRGB", idx, h))
    /\ UNCHANGED params

\* setBrightnessRGB(size_t, float)
SetBrightnessRGB(idx, b) ==
    /\ TickCall(mEncoders,
                IF idx < NumEncoders THEN EncoderSetBrightnessRGB(idx, b) ELSE <<>>,
                0, Call("setBrightnessRGB", idx, b))
    /\ UNCHANGED params

\* setBrightnessRotary(size_t, float)
SetBrightnessRotary(idx, b) ==
    /\ TickCall(mEncoders,
                IF idx < NumEncoders THEN EncoderSetBrightnessRotary(idx, b) ELSE <<>>,
                0, Call("setBrightnessRotary", idx, b))
    /\ UNCHANGED params

\* setAnimationRGB without the check of the rate.
SetAnimationRGBAnyRate(idx, anim, rate) ==
    /\ TickCall(mEncoders,
                IF idx < NumEncoders
                THEN EncoderSetAnimation(idx, AnimationModeRGB(anim, rate))
                ELSE <<>>,
                0, Call("setAnimationRGB", idx, <<anim, rate>>))
    /\ UNCHANGED params

\* setAnimationRGB(size_t, Animation, uint8_t)
SetAnimationRGB(idx, anim, rate) ==
    /\ TickCall(mEncoders,
                IF idx < NumEncoders /\ rate < 8
                THEN EncoderSetAnimation(idx, AnimationModeRGB(anim, rate))
                ELSE <<>>,
                0, Call("setAnimationRGB", idx, <<anim, rate>>))
    /\ UNCHANGED params

\* setAnimationRotary(size_t, Animation, uint8_t)
SetAnimationRotary(idx, anim, rate) ==
    /\ TickCall(mEncoders,
                IF idx < NumEncoders /\ rate < 8 /\ anim # "RAINBOW"
                THEN EncoderSetAnimation(idx, AnimationModeRotary(anim, rate))
                ELSE <<>>,
                0, Call("setAnimationRotary", idx, <<anim, rate>>))
    /\ UNCHANGED params

\* The application sets a bound or unbound parameter: param.set(v) stores the
\* value and runs the parameter's listeners.
ParamSet(p, v) ==
    /\ LET n == Notify(mEncoders, p, v)
       IN  TickCall(mEncoders, n.out, n.err, Call("param.set", 0, p))
    /\ params' = [params EXCEPT ![p] = v]

-----------------------------------------------------------------------------
(* The receive callback and update() *)

\* The callback padding a two-byte frame with a zero value.
MidiCallbackPadding(bytes) ==
    /\ pc # "crashed"
    /\ Len(mChannelMidiIn) < MaxQueue
    /\ mChannelMidiIn' =
          IF Len(bytes) = 3
          THEN Append(mChannelMidiIn, MidiCCMessage(bytes[1], bytes[2], bytes[3]))
          ELSE IF Len(bytes) = 2
          THEN Append(mChannelMidiIn, MidiCCMessage(bytes[1], bytes[2], 0))
          ELSE mChannelMidiIn
    /\ UNCHANGED << mMidiOut, mEncoders, mHighResVelLowByte, params, pc, m,
                    sent, logged, handled, oob, last, arg >>

\* The callback caching the low byte of a prefix frame itself.
MidiCallbackCaching(bytes) ==
    /\ pc # "crashed"
    /\ Len(mChannelMidiIn) < MaxQueue
    /\ mChannelMidiIn' =
          IF Len(bytes) = 3
          THEN Append(mChannelMidiIn, MidiCCMessage(bytes[1], bytes[2], bytes[3]))
          ELSE mChannelMidiIn
    /\ mHighResVelLowByte' =
          IF Len(bytes) = 3 /\ bytes[2] = HighResController
          THEN Low7(bytes[3]) ELSE mHighResVelLowByte
    /\ UNCHANGED << mMidiOut, mEncoders, params, pc, m,
                    sent, logged, handled, oob, last, arg >>

\* _midi_callback: a three-byte frame becomes a message on the channel; a
\* frame of any other length is ignored.  It runs on the transport's thread,
\* at any point of the tick context.
MidiCallback(bytes) ==
    /\ pc # "crashed"
    /\ Len(mChannelMidiIn) < MaxQueue
    /\ mChannelMidiIn' =
          IF Len(bytes) = 3
          THEN Append(mChannelMidiIn, MidiCCMessage(bytes[1], bytes[2], bytes[3]))
          ELSE mChannelMidiIn
    /\ UNCHANGED << mMidiOut, mEncoders, mHighResVelLowByte, params, pc, m,
                    sent, logged, handled, oob, last, arg >>

\* update() is entered: its local message is default-constructed.
UpdateCall ==
    /\ pc = "idle"
    /\ pc' = "update"
    /\ m' = DefaultMessage
    /\ sent' = <<>>
    /\ logged' = 0
    /\ handled' = <<>>
    /\ oob' = FALSE
    /\ last' = Call("update", 0, NoParam)
    /\ UNCHANGED << mMidiOut, mEncoders, mChannelMidiIn, mHighResVelLowByte,
                    params, arg >>

\* highRezVal without the pending low byte.
highRezValNoLow(msb, lsb) == (Low7(msb) * 128) % 65536

\* The 14-bit value the updateRotaryParam lambda rebuilds from its two bytes.
highRezVal(msb, lsb) == (Low7(msb) * 128 + Low7(lsb)) % 65536

\* The updateRotaryParam lambda of parameter p: the value it sets.
updateRotaryParam(p, msb, lsb) ==
    Stored(Kind(p), ofMap(FromInt(highRezVal(msb, lsb)), 0, TW_MAX_ENCODER_VALUE,
                          pMinOf(p), pMaxOf(p)))

\* The updateSwitchParam lambda with its threshold one byte higher.
updateSwitchParamAbove64(msb, lsb) == IF msb > 64 THEN TRUE ELSE FALSE

\* The updateSwitchParam lambda: the value it sets.
updateSwitchParam(msb, lsb) == IF msb > 63 THEN TRUE ELSE FALSE

Handled(pos, kind, p, value) ==
    [pos |-> pos, kind |-> kind, param |-> p, value |-> value]

\* A handler ran: it set parameter p to v, and p's listeners ran.
HandlerRan(p, v, record) ==
    /\ params' = [params EXCEPT ![p] = v]
    /\ sent' = Notify(mEncoders, p, v).out
    /\ logged' = Notify(mEncoders, p, v).err
    /\ handled' = << record >>

NoHandler ==
    /\ sent' = <<>>
    /\ logged' = 0
    /\ handled' = <<>>
    /\ UNCHANGED params

\* The rotary branch of update(): a message on channel 0.
UpdateRotary(msg) ==
    /\ oob' = FALSE
    /\ pc' = pc
    /\ IF msg.controller = HighResController
       THEN /\ mHighResVelLowByte' = Low7(msg.value)
            /\ NoHandler
       ELSE IF msg.controller < NumEncoders
       THEN /\ mHighResVelLowByte' = 0
            /\ LET e == mEncoders[msg.controller]
               IN  IF e.rotaryEnabled /\ e.updateRotaryParam # NoParam
                   THEN HandlerRan(e.updateRotaryParam,
                            updateRotaryParam(e.updateRotaryParam, msg.value,
                                              mHighResVelLowByte),
                            Handled(msg.controller, "rotary", e.updateRotaryParam,
                                    highRezVal(msg.value, mHighResVelLowByte)))
                   ELSE NoHandler
       ELSE /\ UNCHANGED mHighResVelLowByte
            /\ NoHandler

\* The switch branch of update(): a message on channel 1.  The controller
\* indexes mEncoders unchecked; past the array the read is undefined, and it
\* either finds nothing to call or the program faults.
UpdateSwitch(msg) ==
    /\ UNCHANGED mHighResVelLowByte
    /\ IF msg.controller < NumEncoders
       THEN /\ oob' = FALSE
            /\ pc' = pc
            /\ LET e == mEncoders[msg.controller]
               IN  IF e.switchEnabled /\ e.updateSwitchParam # NoParam
                   THEN HandlerRan(e.updateSwitchParam,
                            updateSwitchParam(msg.value, 0),
                            Handled(msg.controller, "switch", e.updateSwitchParam,
                                    msg.value))
                   ELSE NoHandler
       ELSE /\ oob' = TRUE
            /\ pc' \in {pc, "crashed"}
            /\ NoHandler

\* What update() does with one received message.
Route(msg) ==
    IF getCommand(msg) = 11 /\ getChannel(msg) = 0 THEN UpdateRotary(msg)
    ELSE IF getCommand(msg) = 11 /\ getChannel(msg) = 1 THEN UpdateSwitch(msg)
    ELSE /\ oob' = FALSE
         /\ pc' = pc
         /\ NoHandler
         /\ UNCHANGED mHighResVelLowByte

\* tryReceive taking the newest message instead of the oldest.
tryReceiveNewest(queue) ==
    [msg |-> queue[Len(queue)], rest |-> SubSeq(queue, 1, Len(queue) - 1)]

\* tryReceive yielding the oldest message without taking it off the channel.
tryReceivePeeking(queue) == [msg |-> Head(queue), rest |-> queue]

\* ofThreadChannel::tryReceive on a non-empty channel: the message it yields
\* and the messages it leaves.
tryReceive(queue) == [msg |-> Head(queue), rest |-> Tail(queue)]

\* One iteration of update()'s loop: tryReceive yields a message.
UpdateReceive ==
    /\ pc = "update"
    /\ mChannelMidiIn # <<>>
    /\ m' = tryReceive(mChannelMidiIn).msg
    /\ mChannelMidiIn' = tryReceive(mChannelMidiIn).rest
    /\ Route(tryReceive(mChannelMidiIn).msg)
    /\ last' = Call("tryReceive", 0, NoParam)
    /\ UNCHANGED << mMidiOut, mEncoders, arg >>

\* update() returning with the pending low byte dropped.
UpdateReturnResetting ==
    /\ pc = "update"
    /\ mChannelMidiIn = <<>>
    /\ pc' = "idle"
    /\ m' = DefaultMessage
    /\ mHighResVelLowByte' = 0
    /\ UNCHANGED << mMidiOut, mEncoders, mChannelMidiIn,
                    params, sent, logged, handled, oob, last, arg >>

\* tryReceive finds the channel empty: update() returns.
UpdateReturn ==
    /\ pc = "update"
    /\ mChannelMidiIn = <<>>
    /\ pc' = "idle"
    /\ m' = DefaultMessage
    /\ UNCHANGED << mMidiOut, mEncoders, mChannelMidiIn, mHighResVelLowByte,
                    params, sent, logged, handled, oob, last, arg >>

-----------------------------------------------------------------------------
(* Calls made on one encoder alone, as setParam and the listeners make them *)

\* Encoder::setRotaryState on mEncoders[pos]
EncSetRotaryState(pos, enabled, force) ==
    /\ LET r == setRotaryState(mEncoders[pos], pos, enabled, force)
       IN  TickCall([mEncoders EXCEPT ![pos] = r.enc], r.out, r.err,
                    Call("setRotaryState", pos, << enabled, force >>))
    /\ UNCHANGED params

\* Encoder::setSwitchState on mEncoders[pos]
EncSetSwitchState(pos, enabled, force) ==
    /\ LET r == setSwitchState(mEncoders[pos], pos, enabled, force)
       IN  TickCall([mEncoders EXCEPT ![pos] = r.enc], r.out, r.err,
                    Call("setSwitchState", pos, << enabled, force >>))
    /\ UNCHANGED params

\* Encoder::setRotaryValue on mEncoders[pos]
EncSetRotaryValue(pos, v) ==
    /\ LET r == setRotaryValue(mEncoders[pos], pos, v)
       IN  TickCall([mEncoders EXCEPT ![pos] = r.enc], r.out, r.err,
                    Call("setRotaryValue", pos, v))
    /\ UNCHANGED params

-----------------------------------------------------------------------------
(* The program: every call with every input of the model *)

Next ==
    \/ \E idx \in SlotArgs, p \in Params : SetParam(idx, p)
    \/ \E idx \in SlotArgs, force \in BOOLEAN : ClearParam(idx, force)
    \/ \E group \in Groups : SetParams(group)
    \/ Clear
    \/ \E idx \in SlotArgs, h \in LevelArgs : SetHueRGB(idx, h)
    \/ \E idx \in SlotArgs, b \in LevelArgs : SetBrightnessRGB(idx, b)
    \/ \E idx \in SlotArgs, b \in LevelArgs : SetBrightnessRotary(idx, b)
    \/ \E idx \in SlotArgs, a \in Animations, r \in RateArgs : SetAnimationRGB(idx, a, r)
    \/ \E idx \in SlotArgs, a \in Animations, r \in RateArgs : SetAnimationRotary(idx, a, r)
    \/ \E p \in Params : \E v \in ExternalValues(p) : ParamSet(p, v)
    \/ \E bytes \in InboundFrames : MidiCallback(bytes)
    \/ UpdateCall
    \/ UpdateReceive
    \/ UpdateReturn

Spec == Init /\ [][Next]_vars

-----------------------------------------------------------------------------
(* The same program with fewer inputs, one specification per concern.  Each *)
(* step of these is a step of Next, or a call on one encoder.               *)

\* Binding, unbinding and the push of parameter changes: the calls on slot 0
\* and on index 16, the groups, and the application's changes of parameters.
NextBind ==
    \/ \E idx \in {0, 16}, p \in Params : SetParam(idx, p)
    \/ \E idx \in {0, 16}, force \in BOOLEAN : ClearParam(idx, force)
    \/ \E group \in Groups : SetParams(group)
    \/ Clear
    \/ \E p \in Params : \E v \in ExternalValues(p) : ParamSet(p, v)

SpecBind == Init /\ [][NextBind]_vars

\* The per-slot calls at the first slot, the last slot and past the array.
NextSlot ==
    \/ \E idx \in {0, 15, 16}, p \in Params : SetParam(idx, p)
    \/ \E idx \in {0, 15, 16}, force \in BOOLEAN : ClearParam(idx, force)
    \/ \E idx \in {0, 15, 16} : SetHueRGB(idx, [n |-> 1, d |-> 2])
    \/ \E idx \in {0, 15, 16} : SetBrightnessRGB(idx, [n |-> 1, d |-> 2])
    \/ \E idx \in {0, 15, 16} : SetBrightnessRotary(idx, [n |-> 1, d |-> 2])
    \/ \E idx \in {0, 15, 16}, a \in {"STROBE", "RAINBOW"} : SetAnimationRGB(idx, a, 7)
    \/ \E idx \in {0, 15, 16}, a \in {"NONE", "PULSE"} : SetAnimationRotary(idx, a, 7)

SpecSlot == Init /\ [][NextSlot]_vars

\* The inbound path: slot 5 bound to the float or the bool parameter and
\* cleared, frames arriving at any time, update() draining them.
NextRoute ==
    \/ \E p \in {"pF", "pB"} : SetParam(5, p)
    \/ ClearParam(5, FALSE)
    \/ \E bytes \in InboundFrames : MidiCallback(bytes)
    \/ UpdateCall
    \/ UpdateReceive
    \/ UpdateReturn

SpecRoute == Init /\ [][NextRoute]_vars

\* setRotaryValue on encoder 5 with every 14-bit value, before and after the
\* rotary is enabled.
InitEncoder == \E v \in 0 .. TW_MAX_ENCODER_VALUE : InitState(v)

NextEncoder ==
    \/ EncSetRotaryState(5, TRUE, FALSE)
    \/ EncSetRotaryValue(5, arg)

SpecEncoder == InitEncoder /\ [][NextEncoder]_vars

\* One raw frame, held in arg, delivered to the callback any number of times
\* and drained by update(), with no parameter bound.
InitCallback == \E bytes \in RawFrames : InitState(bytes)

NextCallback ==
    \/ MidiCallback(arg)
    \/ UpdateCall
    \/ UpdateReceive
    \/ UpdateReturn

SpecCallback == InitCallback /\ [][NextCallback]_vars

\* A rotary value, held in arg, reported by the hardware for slot 5 as a
\* prefix frame and a value frame, with slot 5 bound to the float or to the
\* int parameter.
InitEcho == \E v \in EchoValues : InitState(v)

NextEcho ==
    \/ \E p \in {"pF", "pI"} : SetParam(5, p)
    \/ MidiCallback(<< 176, HighResController, Low7(arg) >>)
    \/ MidiCallback(<< 176, 5, High7(arg) >>)
    \/ UpdateCall
    \/ UpdateReceive
    \/ UpdateReturn

SpecEcho == InitEcho /\ [][NextEcho]_vars

\* A switch value byte, held in arg, reported by the hardware for slot 5, and
\* its complement, with slot 5 bound to the bool parameter and a prefix frame
\* arriving now and then.
InitSwitch == \E b \in ValueBytes : InitState(b)

NextSwitch ==
    \/ SetParam(5, "pB")
    \/ MidiCallback(<< 176, HighResController, 16 >>)
    \/ \E b \in {arg, 127 - arg} : MidiCallback(<< 177, 5, b >>)
    \/ UpdateCall
    \/ UpdateReceive
    \/ UpdateReturn

SpecSwitch == InitSwitch /\ [][NextSwitch]_vars

\* The animation calls with every animation and every rate, on the first
\* slot, the last slot and past the array.
NextAnimation ==
    \/ \E idx \in {0, 15, 16}, a \in Animations, r \in AllRates :
          SetAnimationRGB(idx, a, r)
    \/ \E idx \in {0, 15, 16}, a \in Animations, r \in AllRates :
          SetAnimationRotary(idx, a, r)

SpecAnimation == Init /\ [][NextAnimation]_vars

\* Frames for the loop of update(): a prefix, a value and a switch frame of
\* slot 5, a note-on, and a frame of two bytes that the callback drops.
DrainFrames ==
    { <<176, 88, 16>>, <<176, 5, 64>>, <<177, 5, 64>>, <<144, 5, 64>>, <<176, 5>> }

\* The callback thread and the thread that calls update(), slot 5 bound.
NextDrain ==
    \/ \E p \in {"pF", "pB"} : SetParam(5, p)
    \/ \E bytes \in DrainFrames : MidiCallback(bytes)
    \/ UpdateCall
    \/ UpdateReceive
    \/ UpdateReturn

\* An iteration of the loop is possible exactly when update() runs and the
\* channel holds a message: Route is defined for every message, and the
\* iteration always changes the channel.
UpdateReceiveEnabled == pc = "update" /\ mChannelMidiIn # <<>>

\* WF_vars(UpdateReceive), with ENABLED <<UpdateReceive>>_vars written out.
UpdateReceiveFair ==
    \/ []<>~UpdateReceiveEnabled
    \/ []<><<UpdateReceive>>_vars

\* update() runs on a thread that is scheduled: tryReceive does not block and
\* a handler is a finite computation, so an iteration or the return that is
\* possible is eventually taken.  Nothing obliges the callback to run.
SpecDrain ==
    /\ Init
    /\ [][NextDrain]_vars
    /\ UpdateReceiveFair
    /\ WF_vars(UpdateReturn)

\* The two enable transitions of the first, an inner and the last encoder,
\* with every flag and every force.
NextState ==
    \/ \E pos \in {0, 5, 15}, enabled \in BOOLEAN, force \in BOOLEAN :
          EncSetRotaryState(pos, enabled, force)
    \/ \E pos \in {0, 5, 15}, enabled \in BOOLEAN, force \in BOOLEAN :
          EncSetSwitchState(pos, enabled, force)

SpecState == Init /\ [][NextState]_vars

\* setParams with groups of every length class, and the first two slots
\* cleared one at a time.
NextGroups ==
    \/ \E group \in GroupArgs : SetParams(group)
    \/ \E idx \in {0, 1} : ClearParam(idx, FALSE)

SpecGroups == Init /\ [][NextGroups]_vars

-----------------------------------------------------------------------------
(* Properties of the inbound path, checked under SpecRoute *)

\* update() has just taken m from the channel and routed it.
Received == pc # "idle" /\ last.op = "tryReceive"

\* This step is an iteration of update()'s loop.
ReceiveStep ==
    /\ pc = "update"
    /\ mChannelMidiIn # <<>>
    /\ last'.op = "tryReceive"
    /\ Len(mChannelMidiIn') = Len(mChannelMidiIn) - 1

IsRotaryClass(msg) == getCommand(msg) = 11 /\ getChannel(msg) = 0

IsSwitchClass(msg) == getCommand(msg) = 11 /\ getChannel(msg) = 1

IsPrefix(msg) == IsRotaryClass(msg) /\ msg.controller = 88

\* C1: the prefix frame [0xB0, 0x58, l] alone invokes no handler and writes no
\* parameter; when the next frame update() takes is the value frame
\* [0xB0, s, m] of a rotary-enabled slot s, the rotary handler of s is invoked
\* exactly once, with the 14-bit value ((m & 0x7F) << 7) | (l & 0x7F).
C1_HighResPair ==
    [][ ReceiveStep =>
          /\ IsPrefix(m') => (handled' = <<>> /\ params' = params)
          /\ ( /\ last.op = "tryReceive"
               /\ IsPrefix(m)
               /\ IsRotaryClass(m')
               /\ m'.controller < 16
               /\ mEncoders[m'.controller].rotaryEnabled )
             => handled' =
                  << [ pos   |-> m'.controller,
                       kind  |-> "rotary",
                       param |-> mEncoders[m'.controller].updateRotaryParam,
                       value |-> (m'.value % 128) * 128 + (m.value % 128) ] >>
      ]_vars

\* C1 witness: the frames [0xB0,0x58,0x10], [0xB0,0x05,0x40] have been
\* processed with slot 5 rotary-enabled: one reconstruction of (0x40<<7)|0x10.
C1_Witness ==
    /\ Received
    /\ m = MidiCCMessage(176, 5, 64)
    /\ handled = << [pos |-> 5, kind |-> "rotary", param |-> "pF", value |-> 8208] >>

\* C2: after update() has processed a rotary-class frame whose controller is
\* not the 0x58 prefix, the pending low byte is 0, whatever the controller.
C2_LowByteReset ==
    (pc = "update" /\ last.op = "tryReceive" /\ IsRotaryClass(m) /\ m.controller # 88)
        => mHighResVelLowByte = 0

\* C3: a switch-class frame whose controller is 16 or above invokes no
\* handler, writes no parameter and reads no encoder outside the array.
C3_SwitchIndexChecked ==
    (Received /\ IsSwitchClass(m) /\ m.controller >= 16)
        => (~oob /\ handled = <<>> /\ pc # "crashed")

\* C10: the channel changes only by the callback appending one message at its
\* end and by update() taking the message at its front, which is the message
\* it processes; and update() returns only when the channel is empty.
C10_FifoDrain ==
    [][ /\ (mChannelMidiIn' # mChannelMidiIn) =>
              \/ /\ Len(mChannelMidiIn') = Len(mChannelMidiIn) + 1
                 /\ SubSeq(mChannelMidiIn', 1, Len(mChannelMidiIn)) = mChannelMidiIn
                 /\ UNCHANGED << m, pc, params, handled, mHighResVelLowByte >>
              \/ /\ pc = "update"
                 /\ last'.op = "tryReceive"
                 /\ m' = Head(mChannelMidiIn)
                 /\ mChannelMidiIn' = Tail(mChannelMidiIn)
        /\ (pc = "update" /\ pc' = "idle") =>
              (mChannelMidiIn = <<>> /\ mChannelMidiIn' = <<>>)
      ]_vars

\* C10 witness: update() has processed the first of two different messages
\* and the second is still waiting.
C10_Witness ==
    /\ Received
    /\ pc = "update"
    /\ mChannelMidiIn # <<>>
    /\ m # Head(mChannelMidiIn)

-----------------------------------------------------------------------------
(* Properties of binding and of the push of changes, checked under SpecBind *)

\* The parameters that act on slot pos: those whose change sends a frame for
\* the slot and those an inbound frame for the slot writes.
BoundParams(pos) ==
    LET e == mEncoders[pos]
    IN  { p \in Params :
            \/ e.rotaryEnabled /\ (e.mELRotaryParamChange = p \/ e.updateRotaryParam = p)
            \/ e.switchEnabled /\ (e.mELSwitchParamChange = p \/ e.updateSwitchParam = p) }

\* C4: in every state reached by setParam, setParams and clearParam calls,
\* each slot has at most one binding: no two parameters act on one slot.
C4_AtMostOneBinding == \A pos \in Slots : Cardinality(BoundParams(pos)) <= 1

\* Parameter p is bound to the rotary (to the switch) of slot pos.
RotaryBound(pos, p) ==
    mEncoders[pos].rotaryEnabled /\ mEncoders[pos].mELRotaryParamChange = p

SwitchBound(pos, p) ==
    mEncoders[pos].switchEnabled /\ mEncoders[pos].mELSwitchParamChange = p

\* v rescaled from [lo, hi] to [0, 16383] and clamped, as a 14-bit integer.
Rescaled14(v, lo, hi) ==
    IF v.n <= lo * v.d THEN 0
    ELSE IF v.n >= hi * v.d THEN 16383
    ELSE ((v.n - lo * v.d) * 16383) \div (v.d * (hi - lo))

Bytes(f) == << f.b0, f.b1, f.b2 >>

\* Frame i of the last call starts the two-frame rotary write of value v to pos.
RotaryWriteAt(i, pos, v) ==
    /\ i + 1 <= Len(sent)
    /\ Bytes(sent[i]) = << 176, 88, v % 128 >>
    /\ Bytes(sent[i + 1]) = << 176, pos, (v \div 128) % 128 >>

\* The frames of the last call that carry a value for pos.
ValueFramesFor(pos) ==
    { i \in 1 .. Len(sent) :
        sent[i].by \in {"rotary.value", "switch"} /\ sent[i].b1 = pos }

\* C5: with a transport attached, a change of a parameter made by the
\* application is pushed to every slot the parameter is bound to: for a Float
\* or Int parameter one rotary write of the value rescaled from [min, max] to
\* [0, 16383] and clamped, for a Bool parameter one switch write of byte 127
\* if true and 0 if false.
C5_ChangePushed ==
    (last.op = "param.set" /\ mMidiOut) =>
        \A pos \in Slots :
            /\ RotaryBound(pos, last.arg) =>
                 /\ Cardinality(ValueFramesFor(pos)) = 1
                 /\ \E i \in 1 .. Len(sent) :
                       RotaryWriteAt(i, pos,
                           Rescaled14(params[last.arg], pMinOf(last.arg),
                                      pMaxOf(last.arg)))
            /\ SwitchBound(pos, last.arg) =>
                 /\ Cardinality(ValueFramesFor(pos)) = 1
                 /\ \E i \in 1 .. Len(sent) :
                       Bytes(sent[i]) =
                          << 177, pos, IF params[last.arg] = TRUE THEN 127 ELSE 0 >>

\* C5 witness: the float parameter, bound to slots 0 and 1, has been set past
\* its maximum with a transport attached.
C5_Witness ==
    /\ last.op = "param.set"
    /\ last.arg = "pF"
    /\ mMidiOut
    /\ RotaryBound(0, "pF")
    /\ RotaryBound(1, "pF")
    /\ params["pF"] = [n |-> 3, d |-> 2]

Disabled(e) == ~e.rotaryEnabled /\ ~e.switchEnabled

Unsubscribed(e) ==
    e.mELRotaryParamChange = NoParam /\ e.mELSwitchParamChange = NoParam

\* C6: clearParam on a slot, forced or not, leaves the slot disabled with no
\* parameter-change subscription, whatever was bound to it; on a slot that is
\* already disabled and unsubscribed it leaves every encoder as it was.
C6_ClearUnbinds ==
    [][ (last'.op = "clearParam" /\ last'.idx < NumEncoders) =>
          /\ Disabled(mEncoders'[last'.idx])
          /\ Unsubscribed(mEncoders'[last'.idx])
          /\ (Disabled(mEncoders[last'.idx]) /\ Unsubscribed(mEncoders[last'.idx]))
                => mEncoders' = mEncoders
      ]_vars

\* C6 witness: slot 0 was bound to the float and to the bool parameter and has
\* been cleared: its handlers remain, its flags and subscriptions are gone.
C6_Witness ==
    /\ last.op = "clearParam"
    /\ last.idx = 0
    /\ mEncoders[0].updateRotaryParam = "pF"
    /\ mEncoders[0].updateSwitchParam = "pB"
    /\ Disabled(mEncoders[0])
    /\ Unsubscribed(mEncoders[0])

\* The listeners of p that sit on an encoder whose flag is off.
DisabledListeners(p) ==
    Cardinality({ pos \in Slots :
                    mEncoders[pos].mELRotaryParamChange = p
                    /\ ~mEncoders[pos].rotaryEnabled })
    + Cardinality({ pos \in Slots :
                    mEncoders[pos].mELSwitchParamChange = p
                    /\ ~mEncoders[pos].switchEnabled })

\* C9: setRotaryValue on an encoder whose rotary flag is off, and
\* setSwitchValue on one whose switch flag is off, log an error, send nothing
\* and change no encoder; so every rotary value frame of a call is for a slot
\* whose rotary flag is on, and every switch value frame for a slot whose
\* switch flag is on.
C9_DisabledNoWrite ==
    [][ /\ \A i \in 1 .. Len(sent') :
             /\ sent'[i].by = "rotary.value" => mEncoders'[sent'[i].b1].rotaryEnabled
             /\ sent'[i].by = "switch" => mEncoders'[sent'[i].b1].switchEnabled
        /\ last'.op = "param.set" =>
             /\ mEncoders' = mEncoders
             /\ logged' = DisabledListeners(last'.arg)
             /\ Len(sent') =
                  IF mMidiOut
                  THEN 2 * Cardinality({ pos \in Slots : RotaryBound(pos, last'.arg) })
                       + Cardinality({ pos \in Slots : SwitchBound(pos, last'.arg) })
                  ELSE 0
      ]_vars

\* C9 witness: with a transport attached, a parameter whose only listener sits
\* on a disabled encoder has changed: an error is logged and nothing is sent.
C9_Witness ==
    /\ last.op = "param.set"
    /\ mMidiOut
    /\ logged > 0
    /\ sent = <<>>

-----------------------------------------------------------------------------
(* Properties of the per-slot calls, checked under SpecSlot *)

LedOps ==
    { "setHueRGB", "setBrightnessRGB", "setBrightnessRotary",
      "setAnimationRGB", "setAnimationRotary" }

\* C7: a per-slot call with index 16 changes no encoder, sends no frame and
\* logs nothing; with index 0 or 15 it acts on that slot: setParam binds the
\* parameter to it, clearParam leaves it disabled and unsubscribed, and with a
\* transport attached an LED call sends one frame addressed to it.
C7_IndexChecked ==
    [][ IF last'.idx >= NumEncoders
        THEN mEncoders' = mEncoders /\ sent' = <<>> /\ logged' = 0
        ELSE /\ last'.op = "setParam" =>
                  IF Kind(last'.arg) = "Bool"
                  THEN mEncoders'[last'.idx].switchEnabled
                       /\ mEncoders'[last'.idx].mELSwitchParamChange = last'.arg
                       /\ mEncoders'[last'.idx].updateSwitchParam = last'.arg
                  ELSE mEncoders'[last'.idx].rotaryEnabled
                       /\ mEncoders'[last'.idx].mELRotaryParamChange = last'.arg
                       /\ mEncoders'[last'.idx].updateRotaryParam = last'.arg
             /\ last'.op = "clearParam" =>
                  Disabled(mEncoders'[last'.idx]) /\ Unsubscribed(mEncoders'[last'.idx])
             /\ (last'.op \in LedOps /\ mMidiOut) =>
                  Len(sent') = 1 /\ sent'[1].b1 = last'.idx
             /\ \A pos \in Slots \ {last'.idx} : mEncoders'[pos] = mEncoders[pos]
      ]_vars

\* C7 witness: slots 0 and 15 have each taken a binding, and a call with
\* index 16 has just returned.
C7_Witness ==
    /\ last.idx = 16
    /\ last.op = "clearParam"
    /\ mEncoders[0].rotaryEnabled
    /\ mEncoders[15].switchEnabled

-----------------------------------------------------------------------------
(* Properties of one encoder, checked under SpecEncoder *)

\* C8: setRotaryValue(v) on a rotary-enabled encoder s with a transport
\* attached sends exactly two frames: [0xB0, 0x58, v & 0x7F] first, then
\* [0xB0, s, (v >> 7) & 0x7F].
C8_PrefixThenValue ==
    ( /\ last.op = "setRotaryValue"
      /\ mMidiOut
      /\ mEncoders[last.idx].rotaryEnabled )
    => [i \in 1 .. Len(sent) |-> Bytes(sent[i])] =
          << << 176, 88, arg % 128 >>, << 176, last.idx, (arg \div 128) % 128 >> >>

\* C8 witness: the value 8208 = (0x40 << 7) | 0x10 has been written to the
\* enabled encoder 5 with a transport attached.
C8_Witness ==
    /\ last.op = "setRotaryValue"
    /\ mMidiOut
    /\ mEncoders[5].rotaryEnabled
    /\ arg = 8208
    /\ Len(sent) = 2

-----------------------------------------------------------------------------
(* Properties of the two contexts and of the dispatch, checked under SpecRoute *)

\* The calls the application makes between two updates.
TickOps == { "setParam", "clearParam" }

\* C11: the receive callback, wherever it falls between the steps of the tick
\* context, only appends a message to the inbound queue: the encoders, the
\* pending low byte and the parameters are left as they were.  Those change
\* only on a public call made outside update() or on an iteration of
\* update()'s loop.
C11_CallbackOnlyEnqueues ==
    [][ /\ Len(mChannelMidiIn') > Len(mChannelMidiIn) =>
              /\ mChannelMidiIn' =
                    Append(mChannelMidiIn, mChannelMidiIn'[Len(mChannelMidiIn')])
              /\ UNCHANGED << mEncoders, mHighResVelLowByte, params, pc, m >>
        /\ ( \/ mEncoders' # mEncoders
             \/ mHighResVelLowByte' # mHighResVelLowByte
             \/ params' # params ) =>
              \/ pc = "idle" /\ last'.op \in TickOps
              \/ ReceiveStep
      ]_vars

\* C11 witness: update() has taken a message and run the handler of slot 5,
\* and the queue is full again, so a callback ran while update() was draining.
C11_Witness ==
    /\ Received
    /\ pc = "update"
    /\ handled # <<>>
    /\ mEncoders[5].rotaryEnabled
    /\ Len(mChannelMidiIn) = MaxQueue

-----------------------------------------------------------------------------
(* Properties of the receive callback alone, checked under SpecCallback *)

\* C13: a raw frame that is not exactly three bytes long is discarded by the
\* callback: the queue and everything else stay as they were.  A frame
\* (b0, b1, b2) appends exactly one message, whose command is b0 >> 4, whose
\* channel is b0 & 0xF, whose controller is b1 and whose value is b2.
C13_ThreeBytesOnly ==
    [][ /\ Len(arg) # 3 => mChannelMidiIn' = mChannelMidiIn
        /\ Len(mChannelMidiIn') > Len(mChannelMidiIn) =>
              /\ Len(arg) = 3
              /\ Len(mChannelMidiIn') = Len(mChannelMidiIn) + 1
              /\ SubSeq(mChannelMidiIn', 1, Len(mChannelMidiIn)) = mChannelMidiIn
              /\ LET msg == mChannelMidiIn'[Len(mChannelMidiIn')]
                 IN  /\ getCommand(msg) = arg[1] \div 16
                     /\ getChannel(msg) = arg[1] % 16
                     /\ msg.controller = arg[2]
                     /\ msg.value = arg[3]
              /\ UNCHANGED << mEncoders, mHighResVelLowByte, params, pc, m >>
      ]_vars

\* C13 witness: the frame (0xBF, 0x7F, 0x7F) has been delivered once and is
\* the one message of the queue.
C13_Witness ==
    /\ arg = << 191, 127, 127 >>
    /\ Len(mChannelMidiIn) = 1
    /\ getCommand(mChannelMidiIn[1]) = 11
    /\ getChannel(mChannelMidiIn[1]) = 15
    /\ mChannelMidiIn[1].controller = 127
    /\ mChannelMidiIn[1].value = 127

-----------------------------------------------------------------------------
(* Properties of setParams, checked under SpecGroups *)

\* The phenotype frames of the last call that tell slot pos it is disabled.
DisableFramesFor(frames, pos) ==
    { i \in 1 .. Len(frames) : Bytes(frames[i]) = << 180, pos, 2 >> }

\* C14: setParams(group) binds, for each slot i below the length of the
\* group, the parameter at place i: a Float or an Int to the rotary, a Bool to
\* the switch.  Every slot at or past the length of the group ends with both
\* flags off, and with a transport attached a phenotype 2 frame is sent for it
\* whatever its state was.  A parameter at place 16 or later is bound to no
\* slot.
C14_GroupMapped ==
    [][ last'.op = "setParams" =>
          LET group == last'.arg
          IN  /\ \A pos \in Slots :
                   LET e == mEncoders'[pos]
                   IN  IF pos + 1 <= Len(group)
                       THEN /\ Kind(group[pos + 1]) \in {"Float", "Int"} =>
                                 /\ e.rotaryEnabled
                                 /\ e.mELRotaryParamChange = group[pos + 1]
                                 /\ e.updateRotaryParam = group[pos + 1]
                            /\ Kind(group[pos + 1]) = "Bool" =>
                                 /\ e.switchEnabled
                                 /\ e.mELSwitchParamChange = group[pos + 1]
                                 /\ e.updateSwitchParam = group[pos + 1]
                       ELSE /\ Disabled(e)
                            /\ mMidiOut => DisableFramesFor(sent', pos) # {}
              /\ \A k \in (NumEncoders + 1) .. Len(group) :
                   \A pos \in Slots :
                       /\ mEncoders'[pos].mELRotaryParamChange # group[k]
                       /\ mEncoders'[pos].mELSwitchParamChange # group[k]
                       /\ mEncoders'[pos].updateRotaryParam # group[k]
                       /\ mEncoders'[pos].updateSwitchParam # group[k]
      ]_vars

\* C14 witness: after the group of seventeen, setParams was called with a
\* group of two and a transport attached: slots 0 and 1 are bound, and slot 15
\* is disabled and has been sent its phenotype frame.
C14_Witness ==
    /\ last.op = "setParams"
    /\ last.arg = << "pB", "pF" >>
    /\ mMidiOut
    /\ mEncoders[0].mELSwitchParamChange = "pB"
    /\ mEncoders[1].mELRotaryParamChange = "pF"
    /\ mEncoders[15].updateRotaryParam = "a16"
    /\ Disabled(mEncoders[15])
    /\ DisableFramesFor(sent, 15) # {}

\* The slots of the group handed to the last setParams call whose parameter
\* is neither a Float, an Int nor a Bool.
OtherKindSlots(group) ==
    { pos \in Slots : pos + 1 <= Len(group) /\ Kind(group[pos + 1]) = "Other" }

\* C15 as stated: in setParams a slot whose parameter is of another kind is
\* cleared with force: both flags end off, both subscriptions are removed, and
\* with a transport attached the phenotype 2 frame is sent even when the slot
\* was already disabled.
C15_OtherKindForcedClear ==
    [][ last'.op = "setParams" =>
          \A pos \in OtherKindSlots(last'.arg) :
              /\ Disabled(mEncoders'[pos])
              /\ Unsubscribed(mEncoders'[pos])
              /\ mMidiOut => DisableFramesFor(sent', pos) # {}
      ]_vars

\* C15 amended: the slot is cleared without force: both flags end off and both
\* subscriptions are removed; with a transport attached one phenotype 2 frame
\* is sent if a flag was on, and no frame at all is sent for the slot if it
\* was already disabled.
C15_OtherKindUnforcedClear ==
    [][ last'.op = "setParams" =>
          \A pos \in OtherKindSlots(last'.arg) :
              /\ Disabled(mEncoders'[pos])
              /\ Unsubscribed(mEncoders'[pos])
              /\ (mMidiOut /\ ~Disabled(mEncoders[pos])) =>
                    Cardinality(DisableFramesFor(sent', pos)) = 1
              /\ Disabled(mEncoders[pos]) =>
                    \A i \in 1 .. Len(sent') : sent'[i].b1 # pos
      ]_vars

\* C15 witness: with a transport attached, setParams met a parameter of
\* another kind at slot 0, which holds an old handler and was already
\* disabled: the slot is clear and no frame was sent for it.
C15_Witness ==
    /\ last.op = "setParams"
    /\ last.arg = << "pS", "pI" >>
    /\ mMidiOut
    /\ mEncoders[0].updateSwitchParam = "pB"
    /\ Disabled(mEncoders[0])
    /\ Unsubscribed(mEncoders[0])
    /\ \A i \in 1 .. Len(sent) : sent[i].b1 # 0

-----------------------------------------------------------------------------
(* Properties of the outbound path without a transport, checked under SpecSlot *)

\* C16: with no transport attached no call sends a frame: not a rotary or a
\* switch value, not a phenotype, hue, brightness or animation frame; and
\* none of the calls logs an error or faults.
C16_NoTransportNoFrame ==
    ~mMidiOut => (sent = <<>> /\ logged = 0 /\ pc = "idle")

\* C16 witness: without a transport, slot 0 took a rotary binding and slot 15
\* a switch binding, and an animation was then requested for slot 15.
C16_Witness ==
    /\ ~mMidiOut
    /\ mEncoders[0].rotaryEnabled
    /\ mEncoders[15].switchEnabled
    /\ last.op = "setAnimationRGB"
    /\ last.idx = 15
    /\ sent = <<>>

-----------------------------------------------------------------------------
(* Properties of the echo of a hardware update, checked under SpecEcho *)

\* update() has just run the rotary handler of a slot whose listener is
\* subscribed to the parameter the handler wrote.
RotaryEchoed ==
    /\ Received
    /\ handled # <<>>
    /\ handled[1].kind = "rotary"
    /\ RotaryBound(handled[1].pos, handled[1].param)

\* C17: when a rotary update from the hardware writes a bound Float or Int
\* parameter, the parameter's listener pushes one rotary write back to the
\* slot, and the 14-bit value pushed equals the 14-bit value just received.
C17_EchoIdentical ==
    (RotaryEchoed /\ mMidiOut) =>
        [i \in 1 .. Len(sent) |-> Bytes(sent[i])] =
            << << 176, 88, handled[1].value % 128 >>,
               << 176, handled[1].pos, (handled[1].value \div 128) % 128 >> >>

-----------------------------------------------------------------------------
(* Properties of the switch handler, checked under SpecSwitch *)

\* C18: for a Bool parameter bound to a switch-enabled slot, a switch message
\* with value byte b sets the parameter to true exactly when b > 63, whatever
\* low byte is pending.
C18_SwitchThreshold ==
    ( /\ Received
      /\ m.command_channel = 177
      /\ m.controller < NumEncoders
      /\ mEncoders[m.controller].switchEnabled
      /\ mEncoders[m.controller].updateSwitchParam \in Params )
    => /\ params[mEncoders[m.controller].updateSwitchParam] = (m.value > 63)
       /\ handled = << [pos |-> m.controller, kind |-> "switch",
                        param |-> mEncoders[m.controller].updateSwitchParam,
                        value |-> m.value] >>

\* C18 witness: with a low byte pending, update() has taken the switch message
\* of value 64 for slot 5 and the bool parameter is true.
C18_Witness ==
    /\ Received
    /\ m = MidiCCMessage(177, 5, 64)
    /\ mEncoders[5].switchEnabled
    /\ mHighResVelLowByte = 16
    /\ params["pB"] = TRUE

-----------------------------------------------------------------------------
(* The round trip of a 14-bit value, checked under SpecEncoder *)

\* C19: for every v in 0..16383, the two bytes setRotaryValue(v) puts on the
\* wire, msb = (v >> 7) & 0x7F in the value frame and lsb = v & 0x7F in the
\* prefix frame, are rebuilt by the inbound rotary handler into v.
C19_SplitRoundTrip ==
    (last.op = "setRotaryValue" /\ Len(sent) = 2) =>
        /\ sent[1].by = "rotary.prefix"
        /\ sent[2].by = "rotary.value"
        /\ highRezVal(sent[2].b2, sent[1].b2) = arg

\* C19 witness: the largest value, 16383, has been split into two frames.
C19_Witness ==
    /\ last.op = "setRotaryValue"
    /\ arg = 16383
    /\ Len(sent) = 2
    /\ sent[1].b2 = 127
    /\ sent[2].b2 = 127

-----------------------------------------------------------------------------
(* Properties of the animation calls, checked under SpecAnimation *)

\* The animation code the hardware documents for an RGB LED.
CodeRGB(anim, rate) ==
    CASE anim = "NONE"    -> 0
      [] anim = "STROBE"  -> 1 + rate
      [] anim = "PULSE"   -> 9 + rate
      [] anim = "RAINBOW" -> 127

\* The animation code the hardware documents for a rotary indicator.
CodeRotary(anim, rate) ==
    CASE anim = "NONE"   -> 48
      [] anim = "STROBE" -> 49 + rate
      [] anim = "PULSE"  -> 57 + rate

\* C20: with a transport attached and a slot in range, for every rate in 0..7
\* the animation frame on channel 2 carries: for the RGB LED, NONE 0, STROBE
\* 1 + rate, PULSE 9 + rate, RAINBOW 127; for the rotary, NONE 48, STROBE
\* 49 + rate, PULSE 57 + rate.  A rotary RAINBOW request, and a request with a
\* rate of 8 or more, sends no frame.
C20_AnimationCodes ==
    (last.op \in {"setAnimationRGB", "setAnimationRotary"}
        /\ mMidiOut /\ last.idx < NumEncoders) =>
        LET anim == last.arg[1]
            rate == last.arg[2]
        IN  IF rate >= 8 \/ (last.op = "setAnimationRotary" /\ anim = "RAINBOW")
            THEN sent = <<>>
            ELSE /\ Len(sent) = 1
                 /\ Bytes(sent[1]) =
                       << 178, last.idx,
                          IF last.op = "setAnimationRGB"
                          THEN CodeRGB(anim, rate) ELSE CodeRotary(anim, rate) >>

\* C20 witness: STROBE at rate 3 has been requested for the rotary of slot 15
\* with a transport attached, and the code 52 was sent.
C20_Witness ==
    /\ last.op = "setAnimationRotary"
    /\ last.idx = 15
    /\ last.arg = << "STROBE", 3 >>
    /\ mMidiOut
    /\ Len(sent) = 1
    /\ Bytes(sent[1]) = << 178, 15, 52 >>

-----------------------------------------------------------------------------
(* Properties of the enable transitions, checked under SpecState *)

\* The frames a transition of encoder pos must send, given the phenotypes it
\* announces (none or one): nothing without a transport, else one frame each.
PhenotypeFrames(pos, phenotypes) ==
    IF ~mMidiOut THEN <<>>
    ELSE [i \in 1 .. Len(phenotypes) |-> << 180, pos, phenotypes[i] >>]

\* C21: setRotaryState(e, force) with e equal to the rotary flag and no force
\* sends nothing and changes nothing.  Otherwise it sends phenotype 0 when
\* enabling, phenotype 2 when disabling with the switch flag off, nothing when
\* disabling with the switch flag on, and sets the rotary flag to e.
\* setSwitchState does the same with phenotype 1 and the two flags exchanged.
C21_EnableTransitions ==
    [][ last'.op \in {"setRotaryState", "setSwitchState"} =>
          LET pos     == last'.idx
              enabled == last'.arg[1]
              force   == last'.arg[2]
              rotary  == last'.op = "setRotaryState"
              before  == mEncoders[pos]
              mine    == IF rotary THEN before.rotaryEnabled ELSE before.switchEnabled
              other   == IF rotary THEN before.switchEnabled ELSE before.rotaryEnabled
              frames  == [i \in 1 .. Len(sent') |-> Bytes(sent'[i])]
          IN  IF mine = enabled /\ ~force
              THEN mEncoders' = mEncoders /\ sent' = <<>>
              ELSE /\ mEncoders' =
                        [mEncoders EXCEPT ![pos] =
                            IF rotary
                            THEN [before EXCEPT !.rotaryEnabled = enabled]
                            ELSE [before EXCEPT !.switchEnabled = enabled]]
                   /\ frames =
                        PhenotypeFrames(pos,
                            IF enabled THEN (IF rotary THEN << 0 >> ELSE << 1 >>)
                            ELSE IF ~other THEN << 2 >> ELSE <<>>)
      ]_vars

\* C21 witness: with a transport attached and the switch of encoder 5 on, its
\* rotary has been disabled with force: the flag is off and nothing was sent.
C21_Witness ==
    /\ last.op = "setRotaryState"
    /\ last.idx = 5
    /\ last.arg = << FALSE, TRUE >>
    /\ mMidiOut
    /\ mEncoders[5].switchEnabled
    /\ ~mEncoders[5].rotaryEnabled
    /\ sent = <<>>

-----------------------------------------------------------------------------
(* Properties of the hardware phenotype, checked under SpecBind *)

\* The phenotypes the last call announced for encoder pos, in sending order.
PhenotypesSent(frames, pos) ==
    SelectSeq([i \in 1 .. Len(frames) |-> Bytes(frames[i])],
              LAMBDA f : f[1] = 180 /\ f[2] = pos)

\* The call that has just returned is setParam(pos, p) with p of one of kinds.
BoundKind(call, pos, kinds) ==
    /\ call.op = "setParam"
    /\ call.idx = pos
    /\ Kind(call.arg) \in kinds

\* C22: with a transport attached, the hardware phenotype of a slot is that
\* of the kind bound last.  Stated for two calls in a row on one slot: when
\* setParam(slot, Bool) has just announced phenotype 1 and
\* setParam(slot, Float or Int) follows, the second call announces phenotype 0
\* last, and the same with the kinds and phenotypes exchanged.
C22_PhenotypeFollowsBinding ==
    [][ \A pos \in Slots :
          LET before == PhenotypesSent(sent, pos)
              after  == PhenotypesSent(sent', pos)
          IN  /\ ( /\ mMidiOut
                   /\ BoundKind(last, pos, {"Bool"})
                   /\ before # <<>>
                   /\ before[Len(before)][3] = 1
                   /\ BoundKind(last', pos, {"Float", "Int"}) )
                 => (after # <<>> /\ after[Len(after)][3] = 0)
              /\ ( /\ mMidiOut
                   /\ BoundKind(last, pos, {"Float", "Int"})
                   /\ before # <<>>
                   /\ before[Len(before)][3] = 0
                   /\ BoundKind(last', pos, {"Bool"}) )
                 => (after # <<>> /\ after[Len(after)][3] = 1)
      ]_vars

-----------------------------------------------------------------------------
(* Properties of the slots past a group, checked under SpecGroups *)

\* C23: after setParams(group) with fewer than 16 parameters, every slot past
\* the group is disabled and holds no parameter-change subscription, as after
\* clearParam.
C23_PastGroupUnsubscribed ==
    [][ (last'.op = "setParams" /\ Len(last'.arg) < NumEncoders) =>
          \A pos \in Slots :
              pos >= Len(last'.arg) =>
                  Disabled(mEncoders'[pos]) /\ Unsubscribed(mEncoders'[pos])
      ]_vars

-----------------------------------------------------------------------------
(* Properties of the pending low byte, checked under SpecRoute *)

\* The message is a channel-0 value frame addressed to a slot of the array.
IsInRangeValue(msg) ==
    IsRotaryClass(msg) /\ ~IsPrefix(msg) /\ msg.controller < NumEncoders

-----------------------------------------------------------------------------
(* Properties of the loop of update(), checked under SpecDrain *)

\* This step puts a message on the channel.
Enqueues == Len(mChannelMidiIn') > Len(mChannelMidiIn)

\* Every step taken while update() runs is the callback appending, or an
\* iteration that takes exactly the oldest message, or the return on an empty
\* channel.
LoopSteps ==
    [][ pc = "update" =>
          \/ /\ Enqueues
             /\ pc' = "update"
          \/ /\ mChannelMidiIn # <<>>
             /\ mChannelMidiIn' = Tail(mChannelMidiIn)
             /\ pc' = "update"
          \/ /\ mChannelMidiIn = <<>>
             /\ mChannelMidiIn' = <<>>
             /\ pc' = "idle"
      ]_vars

UpdateAlwaysReturns == (pc = "update") ~> (pc = "idle")

====
